---------------------------- MODULE Spec2Model ----------------------------
(***************************************************************************)
(* Model of static/js/main.js: the landing page's scroll-reveal observer,  *)
(* the quiz preview widget, the smooth-scrolling anchor links and the      *)
(* parallax background.                                                    *)
(*                                                                         *)
(* The browser runs every handler to completion on one thread, so each     *)
(* handler (an option click, a setTimeout callback, an IntersectionObserver *)
(* callback, an anchor click, a scroll or hover listener) is one atomic     *)
(* action.                                                                 *)
(***************************************************************************)
EXTENDS Naturals, Sequences, FiniteSets, TLC

(* ------------------------------ bounds --------------------------------- *)

\* number of .option elements in the document
NumOptions == 2

\* number of option clicks explored in one behaviour
MaxSelections == 12

\* number of setTimeout callbacks that may be pending at once
MaxPending == 2

\* number of elements matched by '.feature-card, .step, .hero-stats'
NumAnimated == 1

\* number of .gradient-orb elements
NumOrbs == 2

(* --------------------------- program constants ------------------------- *)

totalQuestions == 10

questions ==
    << "What motivates you most in life?",
       "How do you handle stress?",
       "What's your ideal weekend?",
       "How do you make decisions?",
       "What energizes you most?" >>

\* text of the <p> that showQuizComplete writes into .quiz-question
CompleteMessage == "Quiz Complete! Great job!"

CompleteText == "Quiz Complete!"

CompleteWidth == "100%"

ResetTransform == "translateX(0)"

(* ------------------------------ the page ------------------------------- *)

Options == 1 .. NumOptions

AnimatedElements == 1 .. NumAnimated

\* the k-th orb is the one forEach passes with index k - 1
Orbs == 1 .. NumOrbs

\* the values of window.pageYOffset at the scroll events
ScrollPositions == { 0, 100 }

\* the ids that elements of the document carry
ElementIds == { "features", "quiz" }

\* the href attributes of the links matched by a[href^="#"]
Hrefs == { "#", "#features", "#quiz", "#missing", "#1" }

\* scrolledTo when no scrollIntoView was requested
NoScroll == ""

\* what the markup may hold in .progress-text before the script writes to it
InitialProgressTexts == { "", "Question 1 of 10" }

\* a document in which every element the script looks up is present
FullDom ==
    [ quizCard |-> TRUE, progressFill |-> TRUE, progressText |-> TRUE,
      quizQuestion |-> TRUE, questionP |-> TRUE ]

VARIABLES
    dom,              \* which of the looked-up elements exist
    currentQuestion,  \* let currentQuestion
    selected,         \* the options whose classList holds 'selected'
    optionTransform,  \* option.style.transform, per option
    pendingTimers,    \* setTimeout callbacks scheduled and not yet run
    fillWidth,        \* progressFill.style.width
    progressText,     \* progressText.textContent
    questionText,     \* textContent of '.quiz-question p'
    animateIn,        \* the observed elements whose classList holds 'animate-in'
    anchor,           \* what the last anchor click did
    cardTransform,    \* quizCard.style.transform
    orbTransform,     \* orb.style.transform, per orb
    selections,       \* history: number of option clicks so far
    sequential,       \* history: no click so far was made with a timer pending
    everIntersected,  \* history: elements ever reported with isIntersecting
    leftViewport,     \* history: elements last reported with isIntersecting false
    lastEvent         \* history: the handler that ran last

quizVars ==
    << dom, currentQuestion, selected, optionTransform, pendingTimers,
       fillWidth, progressText, questionText >>

historyVars == << selections, sequential >>

observerVars == << animateIn, everIntersected, leftViewport >>

decorVars == << cardTransform, orbTransform >>

vars ==
    << dom, currentQuestion, selected, optionTransform, pendingTimers,
       fillWidth, progressText, questionText, animateIn, anchor,
       cardTransform, orbTransform,
       selections, sequential, everIntersected, leftViewport,
       lastEvent >>

Event(kind, arg) == [ kind |-> kind, arg |-> arg ]

(* --------------------------- string helpers ---------------------------- *)

Digit(d) ==
    CASE d = 0 -> "0" [] d = 1 -> "1" [] d = 2 -> "2" [] d = 3 -> "3"
      [] d = 4 -> "4" [] d = 5 -> "5" [] d = 6 -> "6" [] d = 7 -> "7"
      [] d = 8 -> "8" [] d = 9 -> "9"

\* ${n} in a template literal, for a non-negative integer n
RECURSIVE NumToStr(_)
NumToStr(n) ==
    IF n < 10 THEN Digit(n) ELSE NumToStr(n \div 10) \o Digit(n % 10)

(* ------------------------------ transforms ----------------------------- *)

HoverTransform == "rotateY(0deg) rotateX(0deg) scale(1.05)"

RestTransform == "rotateY(-5deg) rotateX(5deg) scale(1)"

\* an orb whose style.transform the script has not written
NoTransform == [ written |-> FALSE, up |-> 0, rot |-> 0 ]

\* `translateY(${rate * speed}px) rotate(${scrolled * 0.1}deg)` for the orb
\* of the given forEach index, with rate = scrolled * -0.5 and
\* speed = (index + 1) * 0.1: up is -(rate * speed) in twentieths of a pixel,
\* rot the rotation in tenths of a degree (the doubles' rounding in the last
\* place is not represented)
ParallaxTransform(scrolled, index) ==
    [ written |-> TRUE, up |-> scrolled * (index + 1), rot |-> scrolled ]

(* ------------------------------- Init ---------------------------------- *)

InitPage ==
    /\ currentQuestion = 1
    /\ selected = {}
    /\ optionTransform = [ o \in Options |-> "" ]
    /\ pendingTimers = 0
    /\ fillWidth = ""
    /\ progressText \in InitialProgressTexts
    /\ questionText = questions[1]
    /\ animateIn = {}
    /\ anchor = [ href |-> "", defaultPrevented |-> FALSE,
                  scrolledTo |-> NoScroll, threw |-> FALSE ]
    /\ selections = 0
    /\ sequential = TRUE
    /\ everIntersected = {}
    /\ leftViewport = {}
    /\ cardTransform = ""
    /\ orbTransform = [ k \in Orbs |-> NoTransform ]
    /\ lastEvent = Event("load", 0)

Init ==
    /\ dom = FullDom
    /\ InitPage

(* ------------------------- scroll animations --------------------------- *)

\* the callback with classList.toggle('animate-in', entry.isIntersecting)
ObserverCallback_Toggle(entries) ==
    /\ animateIn' = (animateIn \ DOMAIN entries)
                        \cup { e \in DOMAIN entries : entries[e] }
    /\ everIntersected' = everIntersected \cup { e \in DOMAIN entries : entries[e] }
    /\ leftViewport' = (leftViewport \ DOMAIN entries)
                           \cup { e \in DOMAIN entries : ~entries[e] }
    /\ lastEvent' = Event("intersect", 0)
    /\ UNCHANGED decorVars
    /\ UNCHANGED << quizVars, anchor, historyVars >>

\* the IntersectionObserver callback, for one batch of entries:
\* entries maps each reported element to its isIntersecting
ObserverCallback(entries) ==
    /\ animateIn' = animateIn \cup { e \in DOMAIN entries : entries[e] }
    /\ everIntersected' = everIntersected \cup { e \in DOMAIN entries : entries[e] }
    /\ leftViewport' = (leftViewport \ DOMAIN entries)
                           \cup { e \in DOMAIN entries : ~entries[e] }
    /\ lastEvent' = Event("intersect", 0)
    /\ UNCHANGED decorVars
    /\ UNCHANGED << quizVars, anchor, historyVars >>

Observe ==
    \E els \in (SUBSET AnimatedElements) \ { {} } :
        \E entries \in [ els -> BOOLEAN ] : ObserverCallback(entries)

(* ----------------------------- quiz preview ---------------------------- *)

\* the percentage of the questions already answered, not of the current one
ProgressPercent_Answered(q) == ((q - 1) * 100) \div 10

\* (currentQuestion / totalQuestions) * 100, as ${progress} prints it: for
\* q in 1 .. totalQuestions the double is the integer 10 * q
ProgressPercent(q) == (q * 100) \div totalQuestions

ProgressWidth(q) == NumToStr(ProgressPercent(q)) \o "%"

\* the progress text with the question counted from 0
QuestionLabel_ZeroBased(q) ==
    "Question " \o NumToStr(q - 1) \o " of " \o NumToStr(totalQuestions)

QuestionLabel(q) ==
    "Question " \o NumToStr(q) \o " of " \o NumToStr(totalQuestions)

\* updateProgress() without 'if (progressFill)' and 'if (progressText)'
updateProgress_Unguarded(q) ==
    /\ fillWidth' = ProgressWidth(q)
    /\ progressText' = QuestionLabel(q)

\* updateProgress(), with currentQuestion = q
updateProgress(q) ==
    /\ fillWidth' = IF dom.progressFill THEN ProgressWidth(q) ELSE fillWidth
    /\ progressText' = IF dom.progressText THEN QuestionLabel(q) ELSE progressText

\* simulateNextQuestion() cycling through the list instead of testing
\* currentQuestion <= questions.length
simulateNextQuestion_Wrap(q) ==
    /\ selected' = {}
    /\ optionTransform' = [ o \in Options |-> ResetTransform ]
    /\ questionText' =
          IF dom.questionP THEN questions[((q - 1) % Len(questions)) + 1]
          ELSE questionText

\* simulateNextQuestion() without the 'Reset options' loop
simulateNextQuestion_KeepSelection(q) ==
    /\ UNCHANGED << selected, optionTransform >>
    /\ questionText' =
          IF dom.questionP /\ q <= Len(questions) THEN questions[q]
          ELSE questionText

\* simulateNextQuestion(), with currentQuestion = q
simulateNextQuestion(q) ==
    /\ selected' = {}
    /\ optionTransform' = [ o \in Options |-> ResetTransform ]
    /\ questionText' =
          IF dom.questionP /\ q <= Len(questions) THEN questions[q]
          ELSE questionText

\* showQuizComplete(): the innerHTML written into .quiz-question holds one <p>
showQuizComplete ==
    /\ questionText' = IF dom.quizQuestion THEN CompleteMessage ELSE questionText
    /\ dom' = IF dom.quizQuestion THEN [ dom EXCEPT !.questionP = TRUE ] ELSE dom
    /\ fillWidth' = IF dom.progressFill THEN CompleteWidth ELSE fillWidth
    /\ progressText' = IF dom.progressText THEN CompleteText ELSE progressText

\* the click listener without 'Remove previous selection'
OptionClick_NoClear(o) ==
    /\ selections < MaxSelections
    /\ pendingTimers < MaxPending
    /\ IF dom.quizCard
       THEN /\ selected' = selected \cup { o }
            /\ pendingTimers' = pendingTimers + 1
       ELSE UNCHANGED << selected, pendingTimers >>
    /\ selections' = selections + 1
    /\ sequential' = (sequential /\ pendingTimers = 0)
    /\ lastEvent' = Event("click", o)
    /\ UNCHANGED decorVars
    /\ UNCHANGED << dom, currentQuestion, optionTransform, fillWidth,
                    progressText, questionText, anchor, observerVars >>

\* the click listener with currentQuestion++ outside the setTimeout callback
OptionClick_EagerIncrement(o) ==
    /\ selections < MaxSelections
    /\ pendingTimers < MaxPending
    /\ IF dom.quizCard
       THEN /\ selected' = (selected \ Options) \cup { o }
            /\ pendingTimers' = pendingTimers + 1
            /\ currentQuestion' = currentQuestion + 1
       ELSE UNCHANGED << selected, pendingTimers, currentQuestion >>
    /\ selections' = selections + 1
    /\ sequential' = (sequential /\ pendingTimers = 0)
    /\ lastEvent' = Event("click", o)
    /\ UNCHANGED decorVars
    /\ UNCHANGED << dom, optionTransform, fillWidth,
                    progressText, questionText, anchor, observerVars >>

\* the click listener keeping one timer handle: clearTimeout on the pending
\* one before setTimeout
OptionClick_Supersede(o) ==
    /\ selections < MaxSelections
    /\ pendingTimers < MaxPending
    /\ IF dom.quizCard
       THEN /\ selected' = (selected \ Options) \cup { o }
            /\ pendingTimers' = 1
       ELSE UNCHANGED << selected, pendingTimers >>
    /\ selections' = selections + 1
    /\ sequential' = (sequential /\ pendingTimers = 0)
    /\ lastEvent' = Event("click", o)
    /\ UNCHANGED decorVars
    /\ UNCHANGED << dom, currentQuestion, optionTransform, fillWidth,
                    progressText, questionText, anchor, observerVars >>

\* the click listener of one option: it runs only if initQuizPreview got
\* past 'if (!quizCard) return'
OptionClick(o) ==
    /\ selections < MaxSelections
    /\ pendingTimers < MaxPending
    /\ IF dom.quizCard
       THEN /\ selected' = (selected \ Options) \cup { o }
            /\ pendingTimers' = pendingTimers + 1
       ELSE UNCHANGED << selected, pendingTimers >>
    /\ selections' = selections + 1
    /\ sequential' = (sequential /\ pendingTimers = 0)
    /\ lastEvent' = Event("click", o)
    /\ UNCHANGED decorVars
    /\ UNCHANGED << dom, currentQuestion, optionTransform, fillWidth,
                    progressText, questionText, anchor, observerVars >>

\* the setTimeout callback with '<' written for '<='
TimerFire_StrictLess ==
    /\ pendingTimers > 0
    /\ pendingTimers' = pendingTimers - 1
    /\ currentQuestion' = currentQuestion + 1
    /\ IF currentQuestion + 1 < totalQuestions
       THEN /\ updateProgress(currentQuestion + 1)
            /\ simulateNextQuestion(currentQuestion + 1)
            /\ UNCHANGED dom
       ELSE /\ showQuizComplete
            /\ UNCHANGED << selected, optionTransform >>
    /\ lastEvent' = Event("timer", 0)
    /\ UNCHANGED decorVars
    /\ UNCHANGED << anchor, historyVars, observerVars >>

\* the setTimeout callback testing for the sentinel alone:
\* 'currentQuestion !== totalQuestions + 1' for 'currentQuestion <= totalQuestions'
TimerFire_SentinelOnly ==
    /\ pendingTimers > 0
    /\ pendingTimers' = pendingTimers - 1
    /\ currentQuestion' = currentQuestion + 1
    /\ IF currentQuestion + 1 # totalQuestions + 1
       THEN /\ updateProgress(currentQuestion + 1)
            /\ simulateNextQuestion(currentQuestion + 1)
            /\ UNCHANGED dom
       ELSE /\ showQuizComplete
            /\ UNCHANGED << selected, optionTransform >>
    /\ lastEvent' = Event("timer", 0)
    /\ UNCHANGED decorVars
    /\ UNCHANGED << anchor, historyVars, observerVars >>

\* the setTimeout callback
TimerFire ==
    /\ pendingTimers > 0
    /\ pendingTimers' = pendingTimers - 1
    /\ currentQuestion' = currentQuestion + 1
    /\ IF currentQuestion + 1 <= totalQuestions
       THEN /\ updateProgress(currentQuestion + 1)
            /\ simulateNextQuestion(currentQuestion + 1)
            /\ UNCHANGED dom
       ELSE /\ showQuizComplete
            /\ UNCHANGED << selected, optionTransform >>
    /\ lastEvent' = Event("timer", 0)
    /\ UNCHANGED decorVars
    /\ UNCHANGED << anchor, historyVars, observerVars >>

Click == \E o \in Options : OptionClick(o)

(* --------------------------- smooth scrolling -------------------------- *)

DigitChars == { "0", "1", "2", "3", "4", "5", "6", "7", "8", "9" }

\* whether document.querySelector accepts the href as a selector: '#' must be
\* followed by an identifier, which is not empty and does not start with a digit
IsValidSelector(href) ==
    /\ Len(href) >= 2
    /\ SubSeq(href, 2, 2) \notin DigitChars

\* the id an id selector names
SelectorId(href) == SubSeq(href, 2, Len(href))

\* the click listener of a link whose href attribute is href
AnchorClick(href) ==
    /\ anchor' =
          [ href |-> href,
            defaultPrevented |-> TRUE,
            threw |-> ~IsValidSelector(href),
            scrolledTo |->
                IF IsValidSelector(href) /\ SelectorId(href) \in ElementIds
                THEN SelectorId(href) ELSE NoScroll ]
    /\ lastEvent' = Event("anchor", 0)
    /\ UNCHANGED decorVars
    /\ UNCHANGED << quizVars, historyVars, observerVars >>

Anchor == \E href \in Hrefs : AnchorClick(href)

(* ------------------------------ quiz card hover ----------------------- *)

\* the mouseenter listener of the quiz card
MouseEnter ==
    /\ dom.quizCard
    /\ cardTransform # HoverTransform
    /\ cardTransform' = HoverTransform
    /\ lastEvent' = Event("mouseenter", 0)
    /\ UNCHANGED << quizVars, anchor, orbTransform, historyVars, observerVars >>

\* a mouseleave listener that also drops the current selection
MouseLeave_ClearSelection ==
    /\ dom.quizCard
    /\ cardTransform = HoverTransform
    /\ cardTransform' = RestTransform
    /\ selected' = {}
    /\ lastEvent' = Event("mouseleave", 0)
    /\ UNCHANGED << dom, currentQuestion, optionTransform, pendingTimers,
                    fillWidth, progressText, questionText,
                    anchor, orbTransform, historyVars, observerVars >>

\* the mouseleave listener of the quiz card: the pointer leaves the card it
\* had entered
MouseLeave ==
    /\ dom.quizCard
    /\ cardTransform = HoverTransform
    /\ cardTransform' = RestTransform
    /\ lastEvent' = Event("mouseleave", 0)
    /\ UNCHANGED << quizVars, anchor, orbTransform, historyVars, observerVars >>

(* -------------------------------- parallax ----------------------------- *)

\* the scroll listener of window, with window.pageYOffset = scrolled
ScrollTo(scrolled) ==
    /\ orbTransform' = [ k \in Orbs |-> ParallaxTransform(scrolled, k - 1) ]
    /\ lastEvent' = Event("scroll", 0)
    /\ UNCHANGED << quizVars, anchor, cardTransform, historyVars, observerVars >>

Scroll == \E scrolled \in ScrollPositions : ScrollTo(scrolled)

(* ------------------------------ the system ----------------------------- *)

Next ==
    \/ Observe
    \/ Click
    \/ TimerFire
    \/ Anchor

Spec == Init /\ [][Next]_vars

\* the documents the script may be loaded into: any of the looked-up
\* elements may be missing ('.quiz-question p' lies inside '.quiz-question')
Doms ==
    { d \in [ quizCard : BOOLEAN, progressFill : BOOLEAN, progressText : BOOLEAN,
              quizQuestion : BOOLEAN, questionP : BOOLEAN ] :
          d.questionP => d.quizQuestion }

InitAnyDom ==
    /\ dom \in Doms
    /\ InitPage

\* the handlers initQuizPreview registers
NextQuiz ==
    \/ Click
    \/ TimerFire

\* the quiz preview alone, in any document
SpecQuizDom == InitAnyDom /\ [][NextQuiz]_vars

\* the quiz preview in the full document.  The browser runs the callback of
\* every timer that was set: a pending callback is not postponed for ever
SpecQuizFair == Init /\ [][NextQuiz]_vars /\ WF_vars(TimerFire)

\* every handler the DOMContentLoaded listener registers
NextPage ==
    \/ Next
    \/ MouseEnter
    \/ MouseLeave
    \/ Scroll

\* the whole page
SpecPage == Init /\ [][NextPage]_vars

(* ------------------------- states of the quiz -------------------------- *)

\* the display showQuizComplete leaves behind
CompletedDisplay ==
    /\ questionText = "Quiz Complete! Great job!"
    /\ fillWidth = "100%"
    /\ progressText = "Quiz Complete!"

AwaitingSelection(n) ==
    /\ n \in 1 .. 10
    /\ currentQuestion = n
    /\ ~CompletedDisplay

Completed ==
    /\ currentQuestion > 10
    /\ CompletedDisplay

\* every click so far was followed by its timer before the next click
SequentialRun(n) ==
    /\ sequential
    /\ selections = n
    /\ pendingTimers = 0

ExpectedLabel ==
    << "Question 1 of 10", "Question 2 of 10", "Question 3 of 10",
       "Question 4 of 10", "Question 5 of 10", "Question 6 of 10",
       "Question 7 of 10", "Question 8 of 10", "Question 9 of 10",
       "Question 10 of 10" >>

ExpectedWidth ==
    << "10%", "20%", "30%", "40%", "50%", "60%", "70%", "80%", "90%", "100%" >>

(* -------------------------------- claims ------------------------------- *)

\* C1 (as claimed): currentQuestionIndex starts at 1 and never exceeds
\* totalQuestions + 1 = 11, whatever clicks and timer firings happen.
\* The click listener has no guard, so an 11th click takes the index to 12.
C1_IndexWithinSentinel == currentQuestion \in 1 .. 11

\* C2 (as claimed): after exactly 9 sequential selections the quiz preview
\* shows the completion display.
C2_NineSelectionsComplete == SequentialRun(9) => Completed

\* C2 (amended): after 9 sequential selections the quiz is still at question
\* 10 ("Question 10 of 10"); it is after exactly 10 that it is Completed.
C2_TenSelectionsComplete ==
    /\ SequentialRun(10) => Completed /\ currentQuestion = 11
    /\ SequentialRun(9) =>
          AwaitingSelection(10) /\ progressText = "Question 10 of 10"

C2_Witness == SequentialRun(10) /\ Completed /\ lastEvent.kind = "timer"

\* C3 (as claimed): an option click made in Completed marks no option,
\* schedules no deferred transition and leaves currentQuestionIndex alone.
C3_NoSelectionInCompleted ==
    [][ (Completed /\ selections' = selections + 1) =>
            /\ selected' = selected
            /\ pendingTimers' = pendingTimers
            /\ currentQuestion' = currentQuestion ]_vars

\* C4: after n sequential selections, n in 1 .. 10, the progress text reads
\* "Question n+1 of 10" when n < 10 and "Quiz Complete!" when n = 10.
C4_ProgressTextAfterSelections ==
    \A n \in 1 .. 10 :
        SequentialRun(n) =>
            progressText = IF n < 10 THEN ExpectedLabel[n + 1] ELSE "Quiz Complete!"

C4_Witness == SequentialRun(7) /\ progressText = "Question 8 of 10"
\* C5: at most one option is marked selected in every reachable state, and
\* right after an option click exactly the clicked option is selected.
C5_SingleSelection ==
    /\ Cardinality(selected) <= 1
    /\ lastEvent.kind = "click" => selected = { lastEvent.arg }

\* a second click inside one delay window, made after an earlier advance
C5_Witness ==
    /\ lastEvent = Event("click", 2)
    /\ selected = { 2 }
    /\ pendingTimers = 2
    /\ optionTransform[1] = "translateX(0)"

\* C6: a click leaves currentQuestionIndex and the progress display alone;
\* the state stays AwaitingSelection(n) until a timer fires; and the timer of
\* a selection made with nothing else pending takes AwaitingSelection(n) to
\* AwaitingSelection(n+1) if n+1 <= 10 and to Completed otherwise.
C6_DeferredTransition ==
    [][ /\ selections' # selections =>
              UNCHANGED << currentQuestion, fillWidth, progressText >>
        /\ pendingTimers' >= pendingTimers =>
              currentQuestion' = currentQuestion
        /\ \A n \in 1 .. 10 :
              (AwaitingSelection(n) /\ pendingTimers = 1 /\ pendingTimers' = 0) =>
                  IF n + 1 <= 10 THEN AwaitingSelection(n + 1)' ELSE Completed'
      ]_vars

C6_Witness ==
    /\ lastEvent.kind = "timer"
    /\ pendingTimers = 0
    /\ currentQuestion = 11
    /\ CompletedDisplay

ExpectedQuestion ==
    << "What motivates you most in life?", "How do you handle stress?",
       "What's your ideal weekend?", "How do you make decisions?",
       "What energizes you most?" >>

\* a timer step that advances the quiz to question n
AdvanceTo(n) ==
    /\ pendingTimers' = pendingTimers - 1
    /\ currentQuestion' = n

\* C7: a transition that advances the quiz to question n sets the question
\* text to the n-th of the five strings if n <= 5 and leaves it as it was if
\* 6 <= n <= 10; the first advance shows "How do you handle stress?", width
\* 20% and "Question 2 of 10".
C7_QuestionText ==
    [][ /\ \A n \in 2 .. 5 : AdvanceTo(n) => questionText' = ExpectedQuestion[n]
        /\ \A n \in 6 .. 10 : AdvanceTo(n) => questionText' = questionText
        /\ AdvanceTo(2) =>
              /\ questionText' = "How do you handle stress?"
              /\ fillWidth' = "20%"
              /\ progressText' = "Question 2 of 10"
      ]_vars

C7_Witness ==
    /\ lastEvent.kind = "timer"
    /\ currentQuestion = 7
    /\ questionText = "What energizes you most?"

\* C8: once a transition has happened, the progress indicator shows width
\* (n/10)*100 percent and "Question n of 10" for n = currentQuestionIndex
\* while the quiz awaits a selection, and 100% and "Quiz Complete!" once the
\* index is past 10.
C8_ProgressAgrees ==
    currentQuestion > 1 =>
        IF currentQuestion <= 10
        THEN /\ fillWidth = ExpectedWidth[currentQuestion]
             /\ progressText = ExpectedLabel[currentQuestion]
        ELSE /\ fillWidth = "100%"
             /\ progressText = "Quiz Complete!"

\* a transition that ran while another one was still pending
C8_Witness ==
    /\ lastEvent.kind = "timer"
    /\ pendingTimers = 1
    /\ currentQuestion = 3
    /\ fillWidth = "30%"
    /\ progressText = "Question 3 of 10"

\* C9: an element marked animate-in stays marked, whatever intersection
\* events follow, and an element that never intersected is never marked.
C9_RevealMonotone ==
    /\ [][ animateIn \subseteq animateIn' ]_vars
    /\ [](animateIn \subseteq everIntersected)

\* element 1 was revealed and has since left the viewport
C9_Witness ==
    /\ 1 \in animateIn
    /\ 1 \in leftViewport
    /\ lastEvent.kind = "intersect"

\* C10 (as claimed): an anchor click always suppresses the default jump,
\* requests a scroll exactly when an element matches the fragment, and raises
\* no error for any fragment.  querySelector throws on '#' and on '#1'.
C10_AnchorClickNeverThrows ==
    anchor.href # "" =>
        /\ anchor.defaultPrevented
        /\ ~anchor.threw
        /\ anchor.scrolledTo =
              IF SubSeq(anchor.href, 2, Len(anchor.href)) \in ElementIds
              THEN SubSeq(anchor.href, 2, Len(anchor.href)) ELSE ""
\* C11: without the quiz card no handler is attached: option clicks select
\* nothing, schedule nothing and change neither the index, the progress
\* display nor the question text.  With the card present, every pending
\* transition can still run, it advances the index, writes the elements that
\* are present and leaves the state of a missing one as it was.
C11_MissingElements ==
    /\ [](~dom.quizCard => selected = {} /\ pendingTimers = 0)
    /\ [](dom.quizCard /\ pendingTimers > 0 => ENABLED TimerFire)
    /\ [][ /\ ~dom.quizCard =>
                UNCHANGED << currentQuestion, selected, pendingTimers,
                             fillWidth, progressText, questionText >>
           /\ pendingTimers' < pendingTimers =>
                /\ currentQuestion' = currentQuestion + 1
                /\ ~dom.progressFill => fillWidth' = fillWidth
                /\ ~dom.progressText => progressText' = progressText
                /\ ~dom.quizQuestion => questionText' = questionText
                /\ (~dom.questionP /\ currentQuestion' <= 10) =>
                      questionText' = questionText
                /\ (dom.progressFill /\ currentQuestion' <= 10) =>
                      fillWidth' = ExpectedWidth[currentQuestion']
                /\ (dom.progressText /\ currentQuestion' <= 10) =>
                      progressText' = ExpectedLabel[currentQuestion']
                /\ (dom.questionP /\ currentQuestion' <= 5) =>
                      questionText' = ExpectedQuestion[currentQuestion']
         ]_vars

\* three clicks on options of a page that has no quiz card
C11_Witness ==
    /\ ~dom.quizCard
    /\ selections = 3
    /\ lastEvent.kind = "click"
    /\ selected = {}
    /\ pendingTimers = 0

\* a transition that ran without a .progress-text element
C11_WitnessSkip ==
    /\ dom.quizCard
    /\ ~dom.progressText
    /\ dom.progressFill
    /\ lastEvent.kind = "timer"
    /\ fillWidth = "40%"

\* C12: every option click schedules exactly one deferred transition, which
\* no later click cancels or replaces: only its own firing removes it, each
\* firing advances the index by one, and the timer of the m-th click
\* eventually fires.  So k clicks made in one delay window from question n
\* end at currentQuestion = n + k once all timers have fired.
C12_TimersNeverCancelled ==
    /\ [](currentQuestion + pendingTimers = selections + 1)
    /\ [][ /\ selections' # selections => pendingTimers' = pendingTimers + 1
           /\ pendingTimers' < pendingTimers =>
                /\ pendingTimers' = pendingTimers - 1
                /\ currentQuestion' = currentQuestion + 1
                /\ selections' = selections
         ]_vars
    /\ \A m \in 1 .. MaxSelections :
          (selections = m) ~> (currentQuestion >= m + 1)

\* two clicks inside the first delay window, both timers fired: question 2
\* was skipped
C12_Witness ==
    /\ selections = 2
    /\ ~sequential
    /\ pendingTimers = 0
    /\ currentQuestion = 3
    /\ progressText = "Question 3 of 10"

\* C13: right after a deferred transition that moves the quiz to a next
\* question no option is marked selected, not even one clicked while that
\* transition was pending.
C13_SelectionResetOnAdvance ==
    (lastEvent.kind = "timer" /\ currentQuestion <= 10) => selected = {}

\* the first transition ran after a second click had been made
C13_Witness ==
    /\ lastEvent.kind = "timer"
    /\ selections = 2
    /\ pendingTimers = 1
    /\ currentQuestion = 2
    /\ selected = {}

\* C14: once the completion display is shown (message, 100%, "Quiz
\* Complete!"), no click and no timer, pending or new, changes it back.
C14_CompletedAbsorbing ==
    [][ CompletedDisplay => CompletedDisplay' ]_vars

\* a timer that fired after completion had been reached
C14_Witness ==
    /\ CompletedDisplay
    /\ lastEvent.kind = "timer"
    /\ currentQuestion = 12

\* C15: scroll events, intersection callbacks, anchor clicks and quiz-card
\* hover events leave currentQuestionIndex, the selected marks, the pending
\* transitions, the progress display and the question text unchanged; option
\* clicks and timers leave the revealed marks and the parallax transforms
\* unchanged.
C15_DisjointComponents ==
    [][ /\ lastEvent'.kind \in { "scroll", "intersect", "anchor",
                                 "mouseenter", "mouseleave" } =>
              UNCHANGED << currentQuestion, selected, pendingTimers,
                           fillWidth, progressText, questionText >>
        /\ lastEvent'.kind \in { "click", "timer" } =>
              UNCHANGED << animateIn, orbTransform >>
      ]_vars

\* every component has acted, the quiz last: its state and the others' are
\* each as their own handlers left them
C15_Witness ==
    /\ lastEvent.kind = "timer"
    /\ currentQuestion = 2
    /\ pendingTimers = 1
    /\ animateIn = { 1 }
    /\ orbTransform[2] = [ written |-> TRUE, up |-> 200, rot |-> 100 ]
    /\ cardTransform = "rotateY(-5deg) rotateX(5deg) scale(1)"
    /\ anchor.scrolledTo = "features"

=============================================================================
